---- MODULE Spec2Model ----
(***************************************************************************)
(* Model of apex.amp's option resolution layer:                            *)
(*   src/apex/amp/frontend.py   Properties, O0..O3, opt_levels, initialize *)
(*   src/apex/amp/_amp_state.py AmpState, _amp_state, warn_or_err          *)
(*                                                                         *)
(* Python values are records [t, n, e, s] with t the Python type.  The     *)
(* conversion float(x) is computed, from the characters for a str.         *)
(***************************************************************************)
EXTENDS Integers, Sequences, FiniteSets, TLC

VARIABLES
    properties,      \* options dict of a Properties object held by the caller
    access,          \* the last operation on that object and how it ended
    opt_properties,  \* options dict of _amp_state.opt_properties
    hard_override,   \* _amp_state.hard_override
    call             \* the last call of initialize / warn_or_err and how it ended

vars == <<properties, access, opt_properties, hard_override, call>>

----------------------------------------------------------------------------
(* Python values *)

\* A value is a record [t, n, e, s] with t the Python type.  A str carries
\* its code points in s.  A bool, int or dtype carries its number in n.  A
\* float carries the double it is: sign n, and for a finite non-zero one the
\* odd mantissa s, as bits from the most significant, and the exponent e, for
\* n * s * 2^e; a zero has s = <<>> and e = 0; an infinity is carried as
\* 2^1024 and a NaN as 1.5 * 2^1024.  Two floats are one double exactly when
\* their records are equal.

\* the characters of ASCII from " " (32) to "~" (126); the grave accent (96)
\* is written by its name
Ascii ==
    <<" ", "!", "\"", "#", "$", "%", "&", "'", "(", ")", "*", "+",
      ",", "-", ".", "/", "0", "1", "2", "3", "4", "5", "6", "7",
      "8", "9", ":", ";", "<", "=", ">", "?", "@", "A", "B", "C",
      "D", "E", "F", "G", "H", "I", "J", "K", "L", "M", "N", "O",
      "P", "Q", "R", "S", "T", "U", "V", "W", "X", "Y", "Z", "[",
      "\\", "]", "^", "_", "grave", "a", "b", "c", "d", "e", "f", "g",
      "h", "i", "j", "k", "l", "m", "n", "o", "p", "q", "r", "s",
      "t", "u", "v", "w", "x", "y", "z", "{", "|", "}", "~">>

\* ord(c) of such a character
Ord ==
    [c \in {Ascii[i] : i \in DOMAIN Ascii} |->
        31 + CHOOSE i \in DOMAIN Ascii : Ascii[i] = c]

None == [t |-> "NoneType", n |-> 0, e |-> 0, s |-> <<>>]
True == [t |-> "bool", n |-> 1, e |-> 0, s |-> <<>>]
False == [t |-> "bool", n |-> 0, e |-> 0, s |-> <<>>]
PyInt(i) == [t |-> "int", n |-> i, e |-> 0, s |-> <<>>]
\* the str of the given code points
StrOfCodes(codes) == [t |-> "str", n |-> 0, e |-> 0, s |-> codes]
\* the str of the given characters of ASCII
Str(chars) == StrOfCodes([i \in 1..Len(chars) |-> Ord[chars[i]]])
Dtype(bits) == [t |-> "dtype", n |-> bits, e |-> 0, s |-> <<>>]

\* an attribute that has not been assigned yet
Missing == [t |-> "missing", n |-> 0, e |-> 0, s |-> <<>>]

float16 == Dtype(16)
float32 == Dtype(32)

dynamic == Str(<<"d", "y", "n", "a", "m", "i", "c">>)
StrTrue == Str(<<"T", "r", "u", "e">>)
StrFalse == Str(<<"F", "a", "l", "s", "e">>)
Str128 == Str(<<"1", "2", "8", ".", "0">>)
\* a vertical tab, "+", ARABIC-INDIC DIGIT ONE, "e1" and an IDEOGRAPHIC
\* SPACE
Str1e1 == StrOfCodes(<<11, Ord["+"], 1633, Ord["e"], Ord["1"], 12288>>)
StrAbc == Str(<<"a", "b", "c">>)
StrYes == Str(<<"y", "e", "s">>)
StrO0 == Str(<<"O", "0">>)
StrO1 == Str(<<"O", "1">>)
StrO2 == Str(<<"O", "2">>)
StrO3 == Str(<<"O", "3">>)
StrO5 == Str(<<"O", "5">>)

\* bool(x), as "if x:" and "not x" compute it
Truthy(x) ==
    CASE x.t = "NoneType" -> FALSE
      [] x.t \in {"bool", "int"} -> x.n # 0
      [] x.t = "float" -> x.s # <<>>
      [] x.t = "str" -> Len(x.s) > 0
      [] OTHER -> TRUE

----------------------------------------------------------------------------
(* natural numbers of any size, for the arithmetic of float(): a sequence   *)
(* of limbs below 2^15, the least significant first, the last one not 0;    *)
(* <<>> is 0                                                                *)

Limb == 2^15

\* a without limbs of 0 at its end
BigNormal(a) ==
    SubSeq(a, 1, IF \E i \in 1..Len(a) : a[i] # 0
                 THEN CHOOSE i \in 1..Len(a) :
                        a[i] # 0 /\ \A j \in (i + 1)..Len(a) : a[j] = 0
                 ELSE 0)

\* the i-th limb of a, 0 beyond its last
BigLimb(a, i) == IF 1 <= i /\ i <= Len(a) THEN a[i] ELSE 0

\* -1, 0 or 1 as a is less than, equal to or greater than b
BigCmp(a, b) ==
    IF Len(a) # Len(b) THEN (IF Len(a) < Len(b) THEN -1 ELSE 1)
    ELSE IF a = b THEN 0
    ELSE LET i == CHOOSE i \in 1..Len(a) :
                    a[i] # b[i] /\ \A j \in (i + 1)..Len(a) : a[j] = b[j]
         IN  IF a[i] < b[i] THEN -1 ELSE 1

\* a + b: a carry enters limb i when a limb below it overflows and every
\* limb between is full
BigAdd(a, b) ==
    BigNormal(
        [i \in 1..((IF Len(a) > Len(b) THEN Len(a) ELSE Len(b)) + 1) |->
            (BigLimb(a, i) + BigLimb(b, i)
             + (IF \E j \in 1..(i - 1) :
                     /\ BigLimb(a, j) + BigLimb(b, j) >= Limb
                     /\ \A h \in (j + 1)..(i - 1) :
                            BigLimb(a, h) + BigLimb(b, h) = Limb - 1
                THEN 1 ELSE 0)) % Limb])

\* a - b, for a >= b: limb i is borrowed from when a limb of a below it is
\* less than that of b and every limb between is equal
BigSub(a, b) ==
    BigNormal(
        [i \in 1..Len(a) |->
            (a[i] - BigLimb(b, i) + Limb
             - (IF \E j \in 1..(i - 1) :
                     /\ a[j] < BigLimb(b, j)
                     /\ \A h \in (j + 1)..(i - 1) : a[h] = BigLimb(b, h)
                THEN 1 ELSE 0)) % Limb])

\* a * 2^bits
BigShiftLeft(a, bits) ==
    BigNormal(
        [i \in 1..(Len(a) + (bits \div 15) + 1) |->
            (BigLimb(a, i - (bits \div 15)) % 2^(15 - (bits % 15))) * 2^(bits % 15)
            + BigLimb(a, i - (bits \div 15) - 1) \div 2^(15 - (bits % 15))])

\* the number of bits of a > 0: 2^(BigBitLength(a) - 1) <= a < 2^BigBitLength(a)
BigBitLength(a) ==
    15 * (Len(a) - 1)
    + CHOOSE k \in 1..15 : 2^(k - 1) <= a[Len(a)] /\ a[Len(a)] < 2^k

\* a * 10^e
RECURSIVE BigTimesPow10(_, _)
BigTimesPow10(a, e) ==
    IF a = <<>> \/ e = 0 THEN a
    ELSE IF e = 1 THEN BigAdd(BigShiftLeft(a, 3), BigShiftLeft(a, 1))
    ELSE BigTimesPow10(BigTimesPow10(a, e \div 2), e - (e \div 2))

\* the number whose decimal digits are the code points of digits from the
\* i-th to the j-th
RECURSIVE BigFromDigits(_, _, _)
BigFromDigits(digits, i, j) ==
    IF i > j THEN <<>>
    ELSE IF i = j THEN BigNormal(<<digits[i] - 48>>)
    ELSE BigAdd(BigTimesPow10(BigFromDigits(digits, i, (i + j) \div 2),
                              j - ((i + j) \div 2)),
                BigFromDigits(digits, (i + j) \div 2 + 1, j))

----------------------------------------------------------------------------
(* float(x), line 58 of frontend.py *)

Zero(sign) == [t |-> "float", n |-> sign, e |-> 0, s |-> <<>>]
Infinity(sign) == [t |-> "float", n |-> sign, e |-> 1024, s |-> <<1>>]
NaN(sign) == [t |-> "float", n |-> sign, e |-> 1024, s |-> <<1, 1>>]

\* the float sign * bits * 2^exp for bits of at most 53 bits from the first
\* 1 to the last and exp >= -1074: a double, or beyond the greatest one
MakeDouble(sign, bits, exp) ==
    IF \A i \in 1..Len(bits) : bits[i] = 0 THEN Zero(sign)
    ELSE LET first == CHOOSE i \in 1..Len(bits) :
                        bits[i] = 1 /\ \A j \in 1..(i - 1) : bits[j] = 0
             last == CHOOSE i \in 1..Len(bits) :
                        bits[i] = 1 /\ \A j \in (i + 1)..Len(bits) : bits[j] = 0
         IN  IF (last - first + 1) + (exp + Len(bits) - last) > 1024
             THEN Infinity(sign)
             ELSE [t |-> "float", n |-> sign, e |-> exp + Len(bits) - last,
                   s |-> SubSeq(bits, first, last)]

\* the bits of i > 0 after those of higher
RECURSIVE BitsOf(_)
BitsOf(i) == IF i = 0 THEN <<>> ELSE Append(BitsOf(i \div 2), i % 2)

\* float(i) of an int or bool of at most 31 bits
FloatOfInt(i) ==
    IF i < 0 THEN MakeDouble(-1, BitsOf(0 - i), 0) ELSE MakeDouble(1, BitsOf(i), 0)

\* bits + 1
Increment(bits) ==
    IF \A i \in 1..Len(bits) : bits[i] = 1
    THEN <<1>> \o [i \in 1..Len(bits) |-> 0]
    ELSE [i \in 1..Len(bits) |->
            IF \A j \in i..Len(bits) : bits[j] = 1 THEN 0
            ELSE IF \A j \in (i + 1)..Len(bits) : bits[j] = 1 THEN 1
            ELSE bits[i]]

\* the next k bits of the quotient r / d after bits, for r < 2 * d, and
\* what is left of r, times 2^k
RECURSIVE QuotientBits(_, _, _, _)
QuotientBits(r, d, k, bits) ==
    IF k = 0 THEN [bits |-> bits, r |-> r]
    ELSE IF r = <<>> THEN [bits |-> bits \o [i \in 1..k |-> 0], r |-> r]
    ELSE IF BigCmp(r, d) >= 0
    THEN QuotientBits(BigShiftLeft(BigSub(r, d), 1), d, k - 1, Append(bits, 1))
    ELSE QuotientBits(BigShiftLeft(r, 1), d, k - 1, Append(bits, 0))

\* the bits of a quotient q rounded to the nearest: up when what is left is
\* above half of d, to the even one when it is half of d
RoundedBits(q, d) ==
    IF BigCmp(q.r, d) > 0 \/ (BigCmp(q.r, d) = 0 /\ q.bits[Len(q.bits)] = 1)
    THEN Increment(q.bits) ELSE q.bits

\* the double nearest to sign * num / den, with 53 bits from 2^exp up, for
\* num / den < 2^(exp + 53)
DivideAt(sign, num, den, exp) ==
    MakeDouble(sign,
        RoundedBits(
            QuotientBits(IF exp < 0 THEN BigShiftLeft(num, 0 - exp) ELSE num,
                         BigShiftLeft(den, 52 + (IF exp < 0 THEN 0 ELSE exp)),
                         53, <<>>),
            BigShiftLeft(den, 52 + (IF exp < 0 THEN 0 ELSE exp))),
        exp)

\* the double nearest to sign * num / den, where 2^log2 <= num / den <
\* 2^(log2 + 1); a double below 2^-1022 has its last bit at 2^-1074
DivideFrom(sign, num, den, log2) ==
    DivideAt(sign, num, den, IF log2 - 52 < -1074 THEN -1074 ELSE log2 - 52)

\* the double nearest to sign * num / den, where 2^(d - 1) < num / den <
\* 2^(d + 1)
DivideNear(sign, num, den, d) ==
    DivideFrom(sign, num, den,
        IF BigCmp(IF d < 0 THEN BigShiftLeft(num, 0 - d) ELSE num,
                  IF d < 0 THEN den ELSE BigShiftLeft(den, d)) >= 0
        THEN d ELSE d - 1)

\* the double nearest to sign * num / den, for num > 0 and den > 0
Divide(sign, num, den) ==
    DivideNear(sign, num, den, BigBitLength(num) - BigBitLength(den))

\* the float nearest to sign * sig * 10^e, sig the code points of decimal
\* digits without leading or trailing zero.  From 10^309 on it is an
\* infinity, below 10^-324 a zero.
Rounded(sign, sig, e) ==
    IF sig = <<>> THEN Zero(sign)
    ELSE IF Len(sig) + e - 1 > 308 THEN Infinity(sign)
    ELSE IF Len(sig) + e - 1 < -324 THEN Zero(sign)
    ELSE IF e >= 0
    THEN Divide(sign, BigTimesPow10(BigFromDigits(sig, 1, Len(sig)), e), <<1>>)
    ELSE Divide(sign, BigFromDigits(sig, 1, Len(sig)), BigTimesPow10(<<1>>, 0 - e))

\* the least index of chars that holds a code point of set, Len(chars) + 1
\* when none does
FirstOf(chars, set) ==
    IF \E i \in 1..Len(chars) : chars[i] \in set
    THEN CHOOSE i \in 1..Len(chars) :
            chars[i] \in set /\ \A j \in 1..(i - 1) : chars[j] \notin set
    ELSE Len(chars) + 1

\* the greatest index of chars that holds a code point outside set, 0 when
\* none does
LastOutside(chars, set) ==
    IF \E i \in 1..Len(chars) : chars[i] \notin set
    THEN CHOOSE i \in 1..Len(chars) :
            /\ chars[i] \notin set
            /\ \A j \in (i + 1)..Len(chars) : chars[j] \in set
    ELSE 0

FirstOutside(chars, set) ==
    IF \E i \in 1..Len(chars) : chars[i] \notin set
    THEN CHOOSE i \in 1..Len(chars) :
            chars[i] \notin set /\ \A j \in 1..(i - 1) : chars[j] \in set
    ELSE Len(chars) + 1

\* the float nearest to sign * digits * 10^exp, digits the code points of
\* decimal digits
MakeFloat(sign, digits, exp) ==
    Rounded(sign,
            SubSeq(digits, FirstOutside(digits, {48}), LastOutside(digits, {48})),
            exp + (Len(digits) - LastOutside(digits, {48})))

\* the whitespace above ASCII
UnicodeSpace ==
    {133, 160, 5760} \cup 8192..8202 \cup {8232, 8233, 8239, 8287, 12288}

\* the code points above ASCII of the characters of decimal value 0; the
\* nine after each are the characters of decimal value 1 to 9
DecimalZeros ==
    {1632, 1776, 1984, 2406, 2534, 2662, 2790, 2918, 3046, 3174, 3302,
     3430, 3558, 3664, 3792, 3872, 4160, 4240, 6112, 6160, 6470, 6608,
     6784, 6800, 6992, 7088, 7232, 7248, 42528, 43216, 43264, 43472,
     43504, 43600, 44016, 65296, 66720, 68912, 69734, 69872, 69942,
     70096, 70384, 70736, 70864, 71248, 71360, 71472, 71904, 72016,
     72784, 73040, 73120, 92768, 92864, 93008, 120782, 120792, 120802,
     120812, 120822, 123200, 123632, 125264, 130032}

IsDecimal(c) == \E z \in DecimalZeros : z <= c /\ c <= z + 9

DecimalValue(c) == c - CHOOSE z \in DecimalZeros : z <= c /\ c <= z + 9

\* no character of ASCII, no whitespace and no decimal digit
Undecodable(c) == c >= 127 /\ c \notin UnicodeSpace /\ ~IsDecimal(c)

\* float() reads a str through ASCII: whitespace becomes " ", a decimal
\* digit the ASCII digit of its value, and the str ends in "?" at the first
\* character that is neither
ToAscii(chars) ==
    [i \in 1..(IF \E j \in 1..Len(chars) : Undecodable(chars[j])
               THEN CHOOSE j \in 1..Len(chars) :
                        /\ Undecodable(chars[j])
                        /\ \A h \in 1..(j - 1) : ~Undecodable(chars[h])
               ELSE Len(chars)) |->
        IF chars[i] < 127 THEN chars[i]
        ELSE IF chars[i] \in UnicodeSpace THEN 32
        ELSE IF IsDecimal(chars[i]) THEN 48 + DecimalValue(chars[i])
        ELSE 63]

\* the whitespace of ASCII: "\t", "\n", "\x0b", "\f", "\r" and " "
Whitespace == 9..13 \cup {32}

Strip(chars) ==
    SubSeq(chars, FirstOutside(chars, Whitespace), LastOutside(chars, Whitespace))

IsDigit(c) == 48 <= c /\ c <= 57

IsDigits(chars) == \A i \in 1..Len(chars) : IsDigit(chars[i])

\* the number of the decimal digits chars, at most nine of them
RECURSIVE DigitsValue(_)
DigitsValue(chars) ==
    IF chars = <<>> THEN 0
    ELSE 10 * DigitsValue(SubSeq(chars, 1, Len(chars) - 1))
         + (chars[Len(chars)] - 48)

\* an underscore of a numeric literal stands between two digits
UnderscoresOk(chars) ==
    \A i \in 1..Len(chars) :
        chars[i] = Ord["_"] =>
            /\ 1 < i /\ i < Len(chars)
            /\ IsDigit(chars[i - 1])
            /\ IsDigit(chars[i + 1])

NotUnderscore(c) == c # Ord["_"]

\* chars with the ASCII capitals in lower case
Lower(chars) ==
    [i \in 1..Len(chars) |->
        IF 65 <= chars[i] /\ chars[i] <= 90 THEN chars[i] + 32 ELSE chars[i]]

\* the most digits of a mantissa, and of its fraction
MaxDigits == 1000000000

\* the greatest exponent read
MaxAbsExp == 1100000000

\* the value of the digits of an exponent; it is MaxAbsExp when more than
\* nine digits follow the leading zeros
ExponentValue(digits) ==
    IF Len(digits) - (FirstOutside(digits, {48}) - 1) > 9 THEN MaxAbsExp
    ELSE DigitsValue(SubSeq(digits, FirstOutside(digits, {48}), Len(digits)))

\* a literal split at its "." and its exponent letter: digits are required
\* in whole \o frac, and after the exponent letter and its optional sign;
\* the digits from the first that is not 0 on, and those of the fraction,
\* are at most MaxDigits
ParseParts(sign, whole, frac, expPart, hasExp) ==
    LET expSigned == expPart # <<>> /\ expPart[1] \in {Ord["+"], Ord["-"]}
        expDigits == IF expSigned THEN SubSeq(expPart, 2, Len(expPart))
                     ELSE expPart
        expValue == IF ~hasExp THEN 0
                    ELSE IF expSigned /\ expPart[1] = Ord["-"]
                    THEN 0 - ExponentValue(expDigits)
                    ELSE ExponentValue(expDigits)
    IN  IF /\ IsDigits(whole \o frac)
           /\ Len(whole) + Len(frac) > 0
           /\ Len(whole \o frac) - (FirstOutside(whole \o frac, {48}) - 1)
                <= MaxDigits
           /\ Len(frac) <= MaxDigits
           /\ hasExp => (expDigits # <<>> /\ IsDigits(expDigits))
        THEN [exc |-> "none",
              value |-> MakeFloat(sign, whole \o frac, expValue - Len(frac))]
        ELSE [exc |-> "ValueError", value |-> None]

\* what follows the sign when it is none of the words: eAt is where its
\* exponent letter is
ParseNumber(sign, body, eAt) ==
    LET mantissa == SubSeq(body, 1, eAt - 1)
        dot == FirstOf(mantissa, {Ord["."]})
    IN  ParseParts(sign, SubSeq(mantissa, 1, dot - 1),
                   SubSeq(mantissa, dot + 1, Len(mantissa)),
                   SubSeq(body, eAt + 1, Len(body)), eAt <= Len(body))

\* what follows the sign: "inf", "infinity" or "nan" in any case, or a
\* decimal literal
ParseBody(sign, body) ==
    IF Lower(body) \in {Str(<<"i", "n", "f">>).s,
                        Str(<<"i", "n", "f", "i", "n", "i", "t", "y">>).s}
    THEN [exc |-> "none", value |-> Infinity(sign)]
    ELSE IF Lower(body) = Str(<<"n", "a", "n">>).s
    THEN [exc |-> "none", value |-> NaN(sign)]
    ELSE ParseNumber(sign, body, FirstOf(body, {Ord["e"], Ord["E"]}))

\* a str without whitespace at its ends: its underscores are checked and
\* left out, an optional sign is read
ParseStripped(stripped, plain) ==
    IF ~UnderscoresOk(stripped) THEN [exc |-> "ValueError", value |-> None]
    ELSE ParseBody(
            IF plain # <<>> /\ plain[1] = Ord["-"] THEN -1 ELSE 1,
            IF plain # <<>> /\ plain[1] \in {Ord["+"], Ord["-"]}
            THEN SubSeq(plain, 2, Len(plain)) ELSE plain)

\* float(<str>) of the str of code points chars: whitespace at the ends is
\* dropped; then an optional sign and "inf", "infinity" or "nan" in any
\* case, or a decimal literal with optional fraction and exponent and with
\* underscores between digits; anything else is a ValueError
ParseFloat(chars) ==
    ParseStripped(Strip(ToAscii(chars)),
                  SelectSeq(Strip(ToAscii(chars)), NotUnderscore))

\* float(x)
ToFloat(x) ==
    CASE x.t = "float" -> [exc |-> "none", value |-> x]
      [] x.t \in {"int", "bool"} -> [exc |-> "none", value |-> FloatOfInt(x.n)]
      [] x.t = "str" -> ParseFloat(x.s)
      [] OTHER -> [exc |-> "TypeError", value |-> None]

----------------------------------------------------------------------------
(* class Properties *)

OptionNames ==
    {"enabled", "opt_level", "cast_model_type", "patch_torch_functions",
     "keep_batchnorm_fp32", "master_weights", "loss_scale"}

\* a name that is no key of options (reserved in a comment of __init__)
UnknownName == "fused_optimizer"

\* Properties.__init__: the options dict of a new object
PropertiesInit ==
    [name \in OptionNames |->
        CASE name = "enabled" -> False
          [] name = "opt_level" -> None
          [] name = "cast_model_type" -> None
          [] name = "patch_torch_functions" -> False
          [] name = "keep_batchnorm_fp32" -> None
          [] name = "master_weights" -> False
          [] name = "loss_scale" -> FloatOfInt(1)]

\* Properties.__getattr__(name) on an object whose options dict is options
GetAttr(options, name) ==
    IF name \in DOMAIN options
    THEN [exc |-> "none", value |-> options[name]]
    ELSE [exc |-> "AttributeError", value |-> None]

\* mutation of __setattr__: every value is stored as given, never converted
\* or checked
SetAttrNoCoercion(options, name, value) ==
    IF name \in DOMAIN options
    THEN [exc |-> "none", options |-> [options EXCEPT ![name] = value]]
    ELSE [exc |-> "none", options |-> options]

\* mutation of __setattr__: the "False" branch of keep_batchnorm_fp32 writes
\* master_weights
SetAttrWrongKey(options, name, value) ==
    IF name \in DOMAIN options
    THEN IF name = "loss_scale"
         THEN IF value = dynamic
              THEN [exc |-> "none", options |-> [options EXCEPT ![name] = value]]
              ELSE LET f == ToFloat(value)
                   IN  IF f.exc = "none"
                       THEN [exc |-> "none",
                             options |-> [options EXCEPT ![name] = f.value]]
                       ELSE [exc |-> f.exc, options |-> options]
         ELSE IF name = "keep_batchnorm_fp32"
         THEN IF value = StrFalse
              THEN [exc |-> "none",
                    options |-> [options EXCEPT !["master_weights"] = False]]
              ELSE IF value = StrTrue
              THEN [exc |-> "none", options |-> [options EXCEPT ![name] = True]]
              ELSE IF value = True \/ value = False \/ value = None
              THEN [exc |-> "none", options |-> [options EXCEPT ![name] = value]]
              ELSE [exc |-> "AssertionError", options |-> options]
         ELSE [exc |-> "none", options |-> [options EXCEPT ![name] = value]]
    ELSE [exc |-> "none", options |-> options]

\* Properties.__setattr__(name, value) on an object that has its options dict:
\* the exception raised and the options dict afterwards.  A name that is no
\* key of options falls through both ifs: nothing is stored, nothing raised.
SetAttr(options, name, value) ==
    IF name \in DOMAIN options
    THEN IF name = "loss_scale"
         THEN IF value = dynamic
              THEN [exc |-> "none", options |-> [options EXCEPT ![name] = value]]
              ELSE LET f == ToFloat(value)
                   IN  IF f.exc = "none"
                       THEN [exc |-> "none",
                             options |-> [options EXCEPT ![name] = f.value]]
                       ELSE [exc |-> f.exc, options |-> options]
         ELSE IF name = "keep_batchnorm_fp32"
         THEN IF value = StrFalse
              THEN [exc |-> "none", options |-> [options EXCEPT ![name] = False]]
              ELSE IF value = StrTrue
              THEN [exc |-> "none", options |-> [options EXCEPT ![name] = True]]
              ELSE IF value = True \/ value = False \/ value = None
              THEN [exc |-> "none", options |-> [options EXCEPT ![name] = value]]
              ELSE [exc |-> "AssertionError", options |-> options]
         ELSE [exc |-> "none", options |-> [options EXCEPT ![name] = value]]
    ELSE [exc |-> "none", options |-> options]

\* the statement "properties.<name> = value" of a preset
Assign(options, name, value) == SetAttr(options, name, value).options

----------------------------------------------------------------------------
(* the presets O3, O2, O1, O0 and the dict opt_levels *)

\* the statements of a preset's __call__, in order, from the i-th on
RECURSIVE AssignAll(_, _, _)
AssignAll(options, statements, i) ==
    IF i > Len(statements) THEN options
    ELSE AssignAll(Assign(options, statements[i][1], statements[i][2]),
                   statements, i + 1)

O3(options) ==
    AssignAll(options,
        <<<<"enabled", True>>,
          <<"opt_level", StrO3>>,
          <<"cast_model_type", float16>>,
          <<"patch_torch_functions", False>>,
          <<"keep_batchnorm_fp32", False>>,
          <<"master_weights", False>>,
          <<"loss_scale", FloatOfInt(1)>>>>, 1)

O2(options) ==
    AssignAll(options,
        <<<<"enabled", True>>,
          <<"opt_level", StrO2>>,
          <<"cast_model_type", float16>>,
          <<"patch_torch_functions", False>>,
          <<"keep_batchnorm_fp32", True>>,
          <<"master_weights", True>>,
          <<"loss_scale", dynamic>>>>, 1)

\* mutation of O1: cast_model_type is left as it was
O1KeepsCast(options) ==
    AssignAll(options,
        <<<<"enabled", True>>,
          <<"opt_level", StrO1>>,
          <<"patch_torch_functions", True>>,
          <<"keep_batchnorm_fp32", None>>,
          <<"master_weights", False>>,
          <<"loss_scale", dynamic>>>>, 1)

O1(options) ==
    AssignAll(options,
        <<<<"enabled", True>>,
          <<"opt_level", StrO1>>,
          <<"cast_model_type", False>>,
          <<"patch_torch_functions", True>>,
          <<"keep_batchnorm_fp32", None>>,
          <<"master_weights", False>>,
          <<"loss_scale", dynamic>>>>, 1)

O0(options) ==
    AssignAll(options,
        <<<<"enabled", True>>,
          <<"opt_level", StrO0>>,
          <<"cast_model_type", float32>>,
          <<"patch_torch_functions", False>>,
          <<"keep_batchnorm_fp32", None>>,
          <<"master_weights", False>>,
          <<"loss_scale", FloatOfInt(1)>>>>, 1)

\* the keys of opt_levels
OptLevelNames == {StrO3, StrO2, StrO1, StrO0}

\* opt_levels[opt_level](options)
ApplyLevel(opt_level, options) ==
    CASE opt_level = StrO3 -> O3(options)
      [] opt_level = StrO2 -> O2(options)
      [] opt_level = StrO1 -> O1(options)
      [] opt_level = StrO0 -> O0(options)

----------------------------------------------------------------------------
(* _amp_state = AmpState() *)

\* AmpState.__init__ assigns hard_override only: opt_properties is no
\* attribute of _amp_state until initialize assigns it
NoProperties == [name \in OptionNames |-> Missing]

NoAccess == [op |-> "none", name |-> "", value |-> None, exc |-> "none", ret |-> None]

NoCall ==
    [op |-> "none", models |-> "", optimizers |-> "", enabled |-> FALSE,
     opt_level |-> None, kwargs |-> <<>>, exc |-> "none", at |-> 0,
     ret |-> <<>>, initialized |-> FALSE, handed |-> NoProperties]

Init ==
    /\ properties = PropertiesInit
    /\ access = NoAccess
    /\ opt_properties = NoProperties
    /\ hard_override = False
    /\ call = NoCall

----------------------------------------------------------------------------
(* initialize and warn_or_err *)

\* the value kwargs[key]; kwargs is a sequence of [k, v] in the order passed
KwargsGet(kwargs, key) ==
    kwargs[CHOOSE i \in 1..Len(kwargs) : kwargs[i].k = key].v

Raised(st, exc, at) ==
    [opt_properties |-> st.opt_properties, hard_override |-> st.hard_override,
     exc |-> exc, at |-> at, ret |-> <<>>,
     initialized |-> FALSE, handed |-> NoProperties]

\* mutation of the disabled branch: opt_properties is not replaced
DisabledPathKeepsProperties(st, models, optimizers, kwargs) ==
    [opt_properties |-> st.opt_properties,
     hard_override |->
        IF \E i \in 1..Len(kwargs) : kwargs[i].k = "hard_override"
        THEN KwargsGet(kwargs, "hard_override")
        ELSE st.hard_override,
     exc |-> "none", at |-> 0, ret |-> <<"given", models, optimizers>>,
     initialized |-> FALSE, handed |-> NoProperties]

\* "if not enabled:" taken: hard_override is read from kwargs when it is
\* there, opt_properties becomes a new Properties(), the arguments are returned
DisabledPath(st, models, optimizers, kwargs) ==
    [opt_properties |-> PropertiesInit,
     hard_override |->
        IF \E i \in 1..Len(kwargs) : kwargs[i].k = "hard_override"
        THEN KwargsGet(kwargs, "hard_override")
        ELSE st.hard_override,
     exc |-> "none", at |-> 0, ret |-> <<"given", models, optimizers>>,
     initialized |-> FALSE, handed |-> NoProperties]

\* mutation of the opt_level check: opt_properties is reset before the raise
BadOptLevelResets(st) ==
    [Raised(st, "RuntimeError: Unexpected optimization level", 0)
        EXCEPT !.opt_properties = PropertiesInit]

\* "if opt_level not in opt_levels:" taken
BadOptLevel(st) ==
    Raised(st, "RuntimeError: Unexpected optimization level", 0)

\* mutation of the override loop: None is passed to setattr like any value
RECURSIVE ProcessOverridesSetsNone(_, _, _)
ProcessOverridesSetsNone(options, kwargs, i) ==
    IF i > Len(kwargs) THEN [exc |-> "none", at |-> 0, options |-> options]
    ELSE IF kwargs[i].k \notin DOMAIN options
    THEN [exc |-> "RuntimeError: Unexpected kwarg", at |-> i, options |-> options]
    ELSE LET r == SetAttr(options, kwargs[i].k, kwargs[i].v)
         IN  IF r.exc # "none"
             THEN [exc |-> r.exc, at |-> i, options |-> r.options]
             ELSE ProcessOverridesSetsNone(r.options, kwargs, i + 1)

\* mutation of the override loop: every key is checked before any is applied
RECURSIVE ProcessOverridesApply(_, _, _)
ProcessOverridesApply(options, kwargs, i) ==
    IF i > Len(kwargs) THEN [exc |-> "none", at |-> 0, options |-> options]
    ELSE IF kwargs[i].v = None
    THEN ProcessOverridesApply(options, kwargs, i + 1)
    ELSE LET r == SetAttr(options, kwargs[i].k, kwargs[i].v)
         IN  IF r.exc # "none"
             THEN [exc |-> r.exc, at |-> i, options |-> r.options]
             ELSE ProcessOverridesApply(r.options, kwargs, i + 1)

ProcessOverridesChecksKeysFirst(options, kwargs, i) ==
    IF \E j \in i..Len(kwargs) : kwargs[j].k \notin DOMAIN options
    THEN [exc |-> "RuntimeError: Unexpected kwarg",
          at |-> CHOOSE j \in i..Len(kwargs) :
                    /\ kwargs[j].k \notin DOMAIN options
                    /\ \A h \in i..(j - 1) : kwargs[h].k \in DOMAIN options,
          options |-> options]
    ELSE ProcessOverridesApply(options, kwargs, i)

\* "for k, v in kwargs.items():" from the i-th override on: the exception
\* raised, the override it is raised at, and the options dict afterwards
RECURSIVE ProcessOverrides(_, _, _)
ProcessOverrides(options, kwargs, i) ==
    IF i > Len(kwargs) THEN [exc |-> "none", at |-> 0, options |-> options]
    ELSE IF kwargs[i].k \notin DOMAIN options
    THEN [exc |-> "RuntimeError: Unexpected kwarg", at |-> i, options |-> options]
    ELSE IF kwargs[i].v # None
    THEN LET r == SetAttr(options, kwargs[i].k, kwargs[i].v)
         IN  IF r.exc # "none"
             THEN [exc |-> r.exc, at |-> i, options |-> r.options]
             ELSE ProcessOverrides(r.options, kwargs, i + 1)
    ELSE ProcessOverrides(options, kwargs, i + 1)

\* the end of initialize when the override loop ended as r: its exception
\* propagates, or _initialize is called with _amp_state.opt_properties
AfterOverrides(st, models, optimizers, r) ==
    [opt_properties |-> r.options,
     hard_override |-> st.hard_override,
     exc |-> r.exc, at |-> r.at,
     ret |-> IF r.exc = "none"
             THEN <<"_initialize", models, optimizers>> ELSE <<>>,
     initialized |-> r.exc = "none",
     handed |-> IF r.exc = "none" THEN r.options ELSE NoProperties]

\* opt_level is in opt_levels: the preset is applied to a new Properties() and
\* assigned to _amp_state.opt_properties, the overrides are processed on it,
\* and _initialize is called with it
EnabledPath(st, models, optimizers, opt_level, kwargs) ==
    AfterOverrides(st, models, optimizers,
        ProcessOverrides(ApplyLevel(opt_level, PropertiesInit), kwargs, 1))

\* initialize(models, optimizers, enabled, opt_level, **kwargs) called when
\* _amp_state is st: _amp_state afterwards, the exception raised, the value
\* returned, and whether and with what _initialize was called
initialize(st, models, optimizers, enabled, opt_level, kwargs) ==
    IF ~enabled THEN DisabledPath(st, models, optimizers, kwargs)
    ELSE IF opt_level \notin OptLevelNames THEN BadOptLevel(st)
    ELSE EnabledPath(st, models, optimizers, opt_level, kwargs)

\* mutation of warn_or_err: the test of hard_override is inverted
warn_or_err_inverted(flag) ==
    IF ~Truthy(flag) THEN "none" ELSE "RuntimeError: warn_or_err"

\* warn_or_err(msg) when _amp_state.hard_override is flag: prints and
\* returns, or raises
warn_or_err(flag) ==
    IF Truthy(flag) THEN "none" ELSE "RuntimeError: warn_or_err"

Initialize(models, optimizers, enabled, opt_level, kwargs) ==
    \E r \in {initialize([opt_properties |-> opt_properties,
                          hard_override |-> hard_override],
                         models, optimizers, enabled, opt_level, kwargs)} :
        /\ opt_properties' = r.opt_properties
        /\ hard_override' = r.hard_override
        /\ call' = [op |-> "initialize", models |-> models,
                    optimizers |-> optimizers, enabled |-> enabled,
                    opt_level |-> opt_level, kwargs |-> kwargs,
                    exc |-> r.exc, at |-> r.at, ret |-> r.ret,
                    initialized |-> r.initialized, handed |-> r.handed]
        /\ UNCHANGED <<properties, access>>

WarnOrErr ==
    /\ call' = [NoCall EXCEPT !.op = "warn_or_err",
                              !.exc = warn_or_err(hard_override)]
    /\ UNCHANGED <<properties, access, opt_properties, hard_override>>

----------------------------------------------------------------------------
(* the calls made *)

\* the most overrides passed in one call
MaxKwargs == 2

Override(k, v) == [k |-> k, v |-> v]

RECURSIVE KwargsOfLen(_, _)
KwargsOfLen(pairs, n) ==
    IF n = 0 THEN {<<>>}
    ELSE {Append(x[1], x[2]) :
            x \in {y \in KwargsOfLen(pairs, n - 1) \X pairs :
                    \A i \in 1..Len(y[1]) : y[1][i].k # y[2].k}}

KwargsUpTo(pairs, n) == UNION {KwargsOfLen(pairs, k) : k \in 0..n}

\* the overrides of the calls that select a preset
Overrides ==
    {Override("loss_scale", None), Override("loss_scale", dynamic),
     Override("loss_scale", Str128), Override("loss_scale", StrAbc),
     Override("keep_batchnorm_fp32", StrFalse),
     Override("keep_batchnorm_fp32", StrYes),
     Override("master_weights", False),
     Override("hard_override", True),
     Override(UnknownName, None)}

OverrideKwargs == KwargsUpTo(Overrides, MaxKwargs)

\* the overrides of the calls of any kind
AnyOverrides ==
    {Override("hard_override", True), Override("hard_override", False),
     Override("loss_scale", StrAbc), Override(UnknownName, True)}

AnyKwargs == KwargsUpTo(AnyOverrides, MaxKwargs)

OptLevelArgs == OptLevelNames \cup {None, StrO5}

ModelArgs == {"model", "model_list"}

Next ==
    \/ \E models \in ModelArgs, enabled \in BOOLEAN :
       \E opt_level \in OptLevelArgs, kwargs \in AnyKwargs :
            Initialize(models, "optimizer", enabled, opt_level, kwargs)
    \/ WarnOrErr

Spec == Init /\ [][Next]_vars

NextOverrides ==
    \E opt_level \in OptLevelNames, kwargs \in OverrideKwargs :
        Initialize("model", "optimizer", TRUE, opt_level, kwargs)

SpecOverrides == Init /\ [][NextOverrides]_vars

----------------------------------------------------------------------------
(* operations on a Properties object *)

AttrNames == OptionNames \cup {UnknownName}

\* the values written to an attribute
AttrValues(name) ==
    CASE name = "loss_scale" ->
            {dynamic, Str128, Str1e1, FloatOfInt(128), StrAbc, None}
      [] name = "keep_batchnorm_fp32" ->
            {StrTrue, StrFalse, True, False, None, StrYes, PyInt(1)}
      [] OTHER -> {StrFalse, True}

\* properties = Properties()
NewProperties ==
    /\ properties' = PropertiesInit
    /\ access' = [NoAccess EXCEPT !.op = "Properties"]
    /\ UNCHANGED <<opt_properties, hard_override, call>>

\* opt_levels[opt_level](properties)
CallPreset(opt_level) ==
    /\ properties' = ApplyLevel(opt_level, properties)
    /\ access' = [NoAccess EXCEPT !.op = "preset", !.value = opt_level]
    /\ UNCHANGED <<opt_properties, hard_override, call>>

\* setattr(properties, name, value)
SetAttribute(name, value) ==
    \E r \in {SetAttr(properties, name, value)} :
        /\ properties' = r.options
        /\ access' = [NoAccess EXCEPT !.op = "setattr", !.name = name,
                                      !.value = value, !.exc = r.exc]
        /\ UNCHANGED <<opt_properties, hard_override, call>>

\* getattr(properties, name)
GetAttribute(name) ==
    LET r == GetAttr(properties, name)
    IN  /\ access' = [NoAccess EXCEPT !.op = "getattr", !.name = name,
                                      !.exc = r.exc, !.ret = r.value]
        /\ UNCHANGED <<properties, opt_properties, hard_override, call>>

NextProps ==
    \/ NewProperties
    \/ \E opt_level \in OptLevelNames : CallPreset(opt_level)
    \/ \E name \in AttrNames : \E value \in AttrValues(name) :
            SetAttribute(name, value)
    \/ \E name \in AttrNames : GetAttribute(name)

SpecProps == Init /\ [][NextProps]_vars

\* presets applied to objects in any condition, and calls that select a
\* preset without overrides
NextPresets ==
    \/ NewProperties
    \/ \E opt_level \in OptLevelNames : CallPreset(opt_level)
    \/ \E name \in {"loss_scale", "keep_batchnorm_fp32", "cast_model_type"} :
       \E value \in AttrValues(name) : SetAttribute(name, value)
    \/ \E opt_level \in OptLevelNames :
            Initialize("model", "optimizer", TRUE, opt_level, <<>>)

SpecPresets == Init /\ [][NextPresets]_vars

----------------------------------------------------------------------------
(* what the claims are stated with *)

\* the defaults of each opt-level as tabulated
Tabulated(opt_level) ==
    CASE opt_level = StrO0 ->
            [enabled |-> True, opt_level |-> StrO0, cast_model_type |-> float32,
             patch_torch_functions |-> False, keep_batchnorm_fp32 |-> None,
             master_weights |-> False, loss_scale |-> FloatOfInt(1)]
      [] opt_level = StrO1 ->
            [enabled |-> True, opt_level |-> StrO1, cast_model_type |-> False,
             patch_torch_functions |-> True, keep_batchnorm_fp32 |-> None,
             master_weights |-> False, loss_scale |-> dynamic]
      [] opt_level = StrO2 ->
            [enabled |-> True, opt_level |-> StrO2, cast_model_type |-> float16,
             patch_torch_functions |-> False, keep_batchnorm_fp32 |-> True,
             master_weights |-> True, loss_scale |-> dynamic]
      [] opt_level = StrO3 ->
            [enabled |-> True, opt_level |-> StrO3, cast_model_type |-> float16,
             patch_torch_functions |-> False, keep_batchnorm_fp32 |-> False,
             master_weights |-> False, loss_scale |-> FloatOfInt(1)]

\* the blank default
Blank ==
    [enabled |-> False, opt_level |-> None, cast_model_type |-> None,
     patch_torch_functions |-> False, keep_batchnorm_fp32 |-> None,
     master_weights |-> False, loss_scale |-> FloatOfInt(1)]

\* the value an accepted write of value to name is to read back as
ReadsBack(name, value) ==
    CASE name = "loss_scale" /\ value = Str128 -> FloatOfInt(128)
      [] name = "loss_scale" /\ value = Str1e1 -> FloatOfInt(10)
      [] name = "keep_batchnorm_fp32" /\ value = StrTrue -> True
      [] name = "keep_batchnorm_fp32" /\ value = StrFalse -> False
      [] OTHER -> value

\* an override that is to make the call fail
Rejected(o) ==
    \/ o.k \notin {"enabled", "opt_level", "cast_model_type",
                   "patch_torch_functions", "keep_batchnorm_fp32",
                   "master_weights", "loss_scale"}
    \/ o.k = "loss_scale" /\ o.v = StrAbc
    \/ o.k = "keep_batchnorm_fp32" /\ o.v = StrYes

Passes(kwargs, key) == \E i \in 1..Len(kwargs) : kwargs[i].k = key

EnabledCall ==
    call.op = "initialize" /\ call.enabled /\ call.opt_level \in OptLevelNames

----------------------------------------------------------------------------
(* the claims *)

\* C1: a preset applied to a Properties object leaves exactly the tabulated
\* defaults of its opt-level, with enabled true and opt_level its own name;
\* applied again it changes nothing; initialize with that opt_level and no
\* overrides leaves the same as the shared configuration.
C1_PresetDefaults ==
    /\ access.op = "preset" =>
        /\ properties = Tabulated(access.value)
        /\ properties.enabled = True
        /\ properties.opt_level = access.value
        /\ ApplyLevel(access.value, properties) = properties
    /\ (EnabledCall /\ call.kwargs = <<>>) =>
        /\ call.exc = "none"
        /\ opt_properties = Tabulated(call.opt_level)

C1_Witness ==
    /\ access.op = "preset" /\ access.value = StrO1
    /\ properties.cast_model_type = False
    /\ properties.loss_scale = dynamic
    /\ EnabledCall /\ call.kwargs = <<>> /\ call.opt_level = StrO2
    /\ opt_properties.master_weights = True

\* C2 (as claimed): get and set of a name outside the seven options fail
\* with the unknown-option error and leave the options as they were.
C2_UnknownNameFails ==
    (access.op \in {"getattr", "setattr"} /\ access.name \notin OptionNames) =>
        access.exc = "AttributeError"

\* C3 (as claimed): initialize with enabled=true, a valid opt_level and
\* hard_override=True does not fail with an unknown-option error and sets
\* the Global Mode Flag to true.
C3_HardOverrideAccepted ==
    (EnabledCall /\ call.kwargs = <<Override("hard_override", True)>>) =>
        /\ call.exc # "RuntimeError: Unexpected kwarg"
        /\ hard_override = True

\* the outcome and shared configuration of the last call, had its i-th
\* override been omitted
Omitting(i) ==
    initialize([opt_properties |-> opt_properties, hard_override |-> hard_override],
               call.models, call.optimizers, call.enabled, call.opt_level,
               SubSeq(call.kwargs, 1, i - 1)
                   \o SubSeq(call.kwargs, i + 1, Len(call.kwargs)))

SameAsOmitting(i) ==
    /\ Omitting(i).exc = call.exc
    /\ Omitting(i).opt_properties = opt_properties

\* C4 (as claimed): with enabled=true and a valid opt_level, an override of
\* any key whose value is None gives the outcome and the shared configuration
\* of the call without it.
C4_NoneSameAsOmitted ==
    EnabledCall =>
        \A i \in 1..Len(call.kwargs) :
            call.kwargs[i].v = None => SameAsOmitting(i)

\* C4 (amended): an override of a recognized key whose value is None gives
\* the outcome and the shared configuration of the call without it; an
\* override of an unrecognized key fails the call as an unexpected kwarg
\* when the loop reaches it, None or not.
C4_RecognizedNoneIgnored ==
    EnabledCall =>
        \A i \in 1..Len(call.kwargs) :
            /\ (call.kwargs[i].v = None /\ call.kwargs[i].k \in OptionNames)
                    => SameAsOmitting(i)
            /\ (call.kwargs[i].k \notin OptionNames
                  /\ \A j \in 1..(i - 1) : ~Rejected(call.kwargs[j]))
                    => (call.exc = "RuntimeError: Unexpected kwarg" /\ call.at = i)

C4_Witness ==
    /\ EnabledCall /\ call.opt_level = StrO3
    /\ call.kwargs = <<Override("loss_scale", None),
                       Override("keep_batchnorm_fp32", StrFalse)>>
    /\ call.exc = "none"
    /\ opt_properties.loss_scale = FloatOfInt(1)

\* C5: initialize with enabled=true and an opt_level that is none of "O0",
\* "O1", "O2", "O3" raises the bad-opt-level error and leaves the shared
\* configuration and the Global Mode Flag as they were, without calling the
\* initializer.
C5_BadOptLevelNoMutation ==
    [][(call'.op = "initialize" /\ call'.enabled
          /\ call'.opt_level \notin {StrO0, StrO1, StrO2, StrO3}) =>
            /\ call'.exc = "RuntimeError: Unexpected optimization level"
            /\ opt_properties' = opt_properties
            /\ hard_override' = hard_override
            /\ ~call'.initialized]_vars

C5_Witness ==
    /\ call.op = "initialize" /\ call.enabled /\ call.opt_level = StrO5
    /\ call.kwargs = <<Override("hard_override", False)>>
    /\ call.exc = "RuntimeError: Unexpected optimization level"
    /\ opt_properties = Tabulated(StrO2)
    /\ hard_override = True

\* C6: initialize with enabled=false raises nothing and returns the models
\* and optimizers given, for any opt_level and overrides; the shared
\* configuration becomes the blank default, the Global Mode Flag changes only
\* if hard_override was passed, and the initializer is not called.
C6_DisabledPassThrough ==
    [][(call'.op = "initialize" /\ ~call'.enabled) =>
            /\ call'.exc = "none"
            /\ call'.ret = <<"given", call'.models, call'.optimizers>>
            /\ opt_properties' = Blank
            /\ (hard_override' # hard_override
                    => Passes(call'.kwargs, "hard_override"))
            /\ ~call'.initialized]_vars

C6_Witness ==
    /\ call.op = "initialize" /\ ~call.enabled /\ call.opt_level = StrO5
    /\ call.kwargs = <<Override("loss_scale", StrAbc), Override(UnknownName, True)>>
    /\ call.models = "model_list"
    /\ call.ret = <<"given", "model_list", "optimizer">>
    /\ opt_properties = Blank
    /\ hard_override = True

\* C7: an accepted set(name, v) followed by get(name) returns the value as
\* converted at the write: "128.0" as the float 128.0, "True"/"False" for
\* keep_batchnorm_fp32 as booleans, anything else as written; get converts
\* nothing; the stored loss_scale is "dynamic" or a float and the stored
\* keep_batchnorm_fp32 is true, false or unset.
C7_RoundTrip ==
    /\ (access.op = "setattr" /\ access.exc = "none"
          /\ access.name \in OptionNames) =>
            /\ properties[access.name] = ReadsBack(access.name, access.value)
            /\ GetAttr(properties, access.name).value
                    = ReadsBack(access.name, access.value)
    /\ (access.op = "getattr" /\ access.exc = "none") =>
            access.ret = properties[access.name]
    /\ properties.loss_scale = dynamic \/ properties.loss_scale.t = "float"
    /\ properties.keep_batchnorm_fp32 \in {True, False, None}

C7_Witness ==
    /\ access.op = "setattr" /\ access.name = "loss_scale"
    /\ access.value = Str128 /\ access.exc = "none"
    /\ properties.loss_scale = FloatOfInt(128)
    /\ properties.keep_batchnorm_fp32 = True
    /\ properties.opt_level = StrO0

\* C8: in a successful initialize with enabled=true the configuration handed
\* to the initializer is the shared one; every recognized key without a
\* non-None override holds the preset's default, every overridden key holds
\* its override as converted, and enabled and opt_level are the preset's.
C8_OverridesOnlyOwnKey ==
    (EnabledCall /\ call.exc = "none") =>
        /\ call.initialized
        /\ call.handed = opt_properties
        /\ call.handed.enabled = True
        /\ call.handed.opt_level = call.opt_level
        /\ \A name \in OptionNames :
            IF \E i \in 1..Len(call.kwargs) :
                    call.kwargs[i].k = name /\ call.kwargs[i].v # None
            THEN \E i \in 1..Len(call.kwargs) :
                    /\ call.kwargs[i].k = name
                    /\ call.handed[name] = ReadsBack(name, call.kwargs[i].v)
            ELSE call.handed[name] = Tabulated(call.opt_level)[name]

C8_Witness ==
    /\ EnabledCall /\ call.opt_level = StrO2 /\ call.initialized
    /\ call.kwargs = <<Override("keep_batchnorm_fp32", StrFalse)>>
    /\ call.handed.keep_batchnorm_fp32 = False
    /\ call.handed.master_weights = True

\* C9: warn_or_err raises when the Global Mode Flag is false and returns
\* when it is true, and leaves the flag and the shared configuration as
\* they were.
C9_WarnOrErr ==
    [][call'.op = "warn_or_err" =>
            /\ hard_override = False => call'.exc = "RuntimeError: warn_or_err"
            /\ hard_override = True => call'.exc = "none"
            /\ hard_override' = hard_override
            /\ opt_properties' = opt_properties]_vars

C9_Witness ==
    /\ call.op = "warn_or_err" /\ call.exc = "none"
    /\ hard_override = True
    /\ opt_properties = Tabulated(StrO1)

\* C10: an initialize with enabled=true and a valid opt_level fails exactly
\* when an override has an unrecognized key, a loss_scale that is neither
\* "dynamic" nor a number, or a keep_batchnorm_fp32 outside true, false,
\* unset, "True", "False"; it fails at the first such override, without
\* calling the initializer and without rollback: the shared configuration is
\* the preset with the non-None overrides before the failing one applied.
C10_PartialMutation ==
    EnabledCall =>
        /\ call.exc # "none" <=>
                \E i \in 1..Len(call.kwargs) : Rejected(call.kwargs[i])
        /\ call.exc # "none" =>
            /\ call.at \in 1..Len(call.kwargs)
            /\ Rejected(call.kwargs[call.at])
            /\ \A j \in 1..(call.at - 1) : ~Rejected(call.kwargs[j])
            /\ ~call.initialized
            /\ \A name \in OptionNames :
                IF \E j \in 1..(call.at - 1) :
                        call.kwargs[j].k = name /\ call.kwargs[j].v # None
                THEN \E j \in 1..(call.at - 1) :
                        /\ call.kwargs[j].k = name
                        /\ opt_properties[name]
                                = ReadsBack(name, call.kwargs[j].v)
                ELSE opt_properties[name] = Tabulated(call.opt_level)[name]

C10_Witness ==
    /\ EnabledCall /\ call.opt_level = StrO2
    /\ call.kwargs = <<Override("master_weights", False),
                       Override("loss_scale", StrAbc)>>
    /\ call.exc = "ValueError" /\ call.at = 2
    /\ opt_properties.master_weights = False
    /\ opt_properties.loss_scale = dynamic

====
